---- MODULE Spec2Model ----
(***************************************************************************)
(* Verification model of the web-slinger-dispatch client.                  *)
(*                                                                         *)
(* Part 1: the proximity announcer of ChatbotAssistant (the useEffect that *)
(* watches the incident collection, the user's GPS point and the pinned    *)
(* search location, together with the pin / unpin handlers).               *)
(* Part 2: the voice pipeline functions of lib/geminiService.ts            *)
(* (parseVoiceToIncident, fallbackParsing, geocodeLocation,                *)
(* resolveLocation) and the VoiceReportButton that drives them.  Strings   *)
(* are sequences of one-character strings; numbers that the code keeps in  *)
(* [0,1] are integers in hundredths.                                       *)
(*                                                                         *)
(* Geometry.  Every point of the model lies on one meridian, so the        *)
(* haversine formula reduces to R * |dLat| (in radians).  Latitudes are    *)
(* integers in units of 0.0001 degree; distances are integers in           *)
(* thousandths of a mile.                                                  *)
(***************************************************************************)
EXTENDS Integers, Sequences, FiniteSets, TLC

(***************************************************************************)
(* Bounds of the model.                                                    *)
(***************************************************************************)
MaxIncidents == 2
MaxCount == 2

(***************************************************************************)
(* Values.                                                                 *)
(***************************************************************************)
\* null (no location); real latitudes are non-negative.
Null == -1
\* useQuery's result while the query is loading.  A loaded collection is a
\* sequence of latitudes, the incident's _id being its index.
Undefined == << Null >>

IncidentIds == 1..MaxIncidents

\* Latitudes (0.0001 degree) of incidents, of the user's GPS and of pins.
\* 0 and 4 fall in the same toFixed(3) bucket; 436 is more than 3 miles from
\* 0 and less than 3 miles from 4; 1500 is far from all the others.
IncidentLats == {0, 436}
UserLats == {0, 4, 1500}
PinLats == {0, 1500}

Abs(x) == IF x < 0 THEN -x ELSE x

\* Earth's radius in miles.
R == 3959
\* Math.PI as the rational 355/113.
PiNum == 355
PiDen == 113
\* "Within 3 miles", in thousandths of a mile.
RadiusMilli == 3000

\* calculateDistance for two points of the same meridian (lon1 = lon2):
\* a = sin^2(dLat/2), c = |dLat| in radians, result R * c.  Latitudes in
\* 0.0001 degree, result in thousandths of a mile.
calculateDistance(lat1, lon1, lat2, lon2) ==
  (R * PiNum * Abs(lat2 - lat1)) \div (1800 * PiDen)

\* Number.prototype.toFixed(3) of a non-negative latitude given in 0.0001
\* degree: the latitude rounded to thousandths of a degree.
toFixed3(lat) == (lat + 5) \div 10

\* The key strings: pinned-<lat>-<lng> and user-<lat.toFixed(3)>-<lng.toFixed(3)>
pinnedKey(lat) == <<"pinned", lat>>
userKey(lat) == <<"user", toFixed3(lat)>>

VARIABLES
  incidents,              \* useQuery(getIncidents): Undefined, or [id -> lat]
  userLocation,           \* prop userLocation: Null or a latitude
  pinnedLocation,         \* state pinnedLocation: Null or a latitude
  lastAnnouncedIncidents, \* state: the ids held in the array
  monitoredLocations,     \* state: Set<string> of location keys
  effectPending,          \* a dependency of the proximity effect changed
  emitted,                \* announcements of the latest effect run
  speechFailed,           \* ids whose textToSpeech call failed in that run
  announceCount,          \* per id, announcements so far (capped)
  lastAction,             \* kind of the latest step: pin, effect, other
  registered,             \* per location type, ids present when its key was registered
  enteredNear,            \* ids that arrived near the (then monitored) user point
  enteredFar,             \* ids that arrived far from every monitored point
  enteredQuiet,           \* ids that arrived since the monitored points last changed
  arrivedNear,            \* ids that arrived within 3 miles of the user's point
                          \* and have been within 3 miles of it ever since
  monitoredRef,           \* which Set object monitoredLocations holds: flipped
                          \* by each setMonitoredLocations of the effect
  messages,               \* chat log: the ids with an alert in it, 0 for a pin report
  searchClosure,          \* handleLocationSearch awaiting searchLocation: the
                          \* incidents its closure captured
  track                   \* which of the history variables (announceCount,
                          \* registered, enteredNear / enteredFar) this run records

proxVars == <<incidents, userLocation, pinnedLocation, lastAnnouncedIncidents,
              monitoredLocations, effectPending, emitted, speechFailed,
              announceCount,
              lastAction, registered, enteredNear,
              enteredFar, enteredQuiet, arrivedNear, monitoredRef, messages,
              searchClosure,
              track>>

IncidentSet == IF incidents = Undefined THEN {} ELSE DOMAIN incidents

(***************************************************************************)
(* The proximity effect (ChatbotAssistant, useEffect on incidents,         *)
(* pinnedLocation, userLocation, lastAnnouncedIncidents,                   *)
(* monitoredLocations), as a function of the values its closure reads.     *)
(***************************************************************************)

\* locationsToMonitor with the user's location pushed first.
locationsToMonitor_UserFirst(pin, usr) ==
  (IF usr # Null
     THEN << [lat |-> usr, type |-> "user", key |-> userKey(usr)] >>
     ELSE << >>)
  \o
  (IF pin # Null
     THEN << [lat |-> pin, type |-> "pinned", key |-> pinnedKey(pin)] >>
     ELSE << >>)

\* locationsToMonitor: the pinned location first, then the user's location.
locationsToMonitor(pin, usr) ==
  (IF pin # Null
     THEN << [lat |-> pin, type |-> "pinned", key |-> pinnedKey(pin)] >>
     ELSE << >>)
  \o
  (IF usr # Null
     THEN << [lat |-> usr, type |-> "user", key |-> userKey(usr)] >>
     ELSE << >>)

\* nearbyIncidents: incidents.filter(distance <= 3)
nearbyIncidents(inc, lat) ==
  IF inc = Undefined THEN {}
  ELSE { id \in DOMAIN inc : calculateDistance(lat, 0, inc[id], 0) <= RadiusMilli }

\* newIncidentsOf without the lastAnnouncedIncidents.includes filter.
newIncidentsOf_Unfiltered(loc, inc, ann, mon) ==
  IF loc.key \notin mon THEN {}
  ELSE { [id |-> id, locationType |-> loc.type,
          distance |-> calculateDistance(loc.lat, 0, inc[id], 0)] :
           id \in nearbyIncidents(inc, loc.lat) }

\* The entries one monitored location contributes to allNewIncidents: nothing
\* for a key that is not in monitoredLocations; otherwise the nearby
\* incidents that are not in lastAnnouncedIncidents.
newIncidentsOf(loc, inc, ann, mon) ==
  IF loc.key \notin mon THEN {}
  ELSE { [id |-> id, locationType |-> loc.type,
          distance |-> calculateDistance(loc.lat, 0, inc[id], 0)] :
           id \in nearbyIncidents(inc, loc.lat) \ ann }

\* allNewIncidents: the locations are visited in order and an incident
\* already in the list is not added again.
RECURSIVE allNewIncidents(_, _, _, _, _)
allNewIncidents(locs, inc, ann, mon, acc) ==
  IF locs = << >> THEN acc
  ELSE LET have == { e.id : e \in acc }
           more == { e \in newIncidentsOf(Head(locs), inc, ann, mon) : e.id \notin have }
       IN allNewIncidents(Tail(locs), inc, ann, mon, acc \cup more)

\* One run of the effect: the state it leaves (after React applied the
\* queued updates), the announcements it emitted, and whether it set state.
ProximityEffect(inc, pin, usr, ann, mon) ==
  LET locs == locationsToMonitor(pin, usr)
      currentLocationKeys == { locs[i].key : i \in DOMAIN locs }
      newLocationKeys == currentLocationKeys \ mon
      bulk == IF newLocationKeys # {} THEN DOMAIN inc ELSE {}
      found == allNewIncidents(locs, inc, ann, mon, {})
  IN IF inc = Undefined
       THEN [announced |-> ann, monitored |-> mon, emitted |-> {},
             newKeys |-> {}, setState |-> FALSE]
     ELSE IF Len(locs) = 0
       THEN [announced |-> ann, monitored |-> {}, emitted |-> {},
             newKeys |-> {}, setState |-> TRUE]
     ELSE [announced |-> (ann \cup bulk) \cup { e.id : e \in found },
           monitored |-> IF newLocationKeys # {} THEN currentLocationKeys ELSE mon,
           emitted |-> found,
           newKeys |-> newLocationKeys,
           setState |-> (newLocationKeys # {} \/ found # {})]

\* generateLocationReport: lastAnnouncedIncidents is SET to the ids of the
\* incidents within 3 miles of the location.
generateLocationReport(inc, lat) == nearbyIncidents(inc, lat)

(***************************************************************************)
(* Part 2.  Strings of the voice pipeline are sequences of one-character   *)
(* strings, so that includes, substring, trim, toLowerCase and the regular *)
(* expressions of fallbackParsing work on characters as the code does.     *)
(***************************************************************************)
UpperSeq == <<"A", "B", "C", "D", "E", "F", "G", "H", "I", "J", "K", "L", "M", "N", "O", "P", "Q", "R", "S", "T", "U", "V", "W", "X", "Y", "Z">>
LowerSeq == <<"a", "b", "c", "d", "e", "f", "g", "h", "i", "j", "k", "l", "m", "n", "o", "p", "q", "r", "s", "t", "u", "v", "w", "x", "y", "z">>
Letters == { UpperSeq[i] : i \in 1..26 } \cup { LowerSeq[i] : i \in 1..26 }

Min(a, b) == IF a <= b THEN a ELSE b
Max(a, b) == IF a >= b THEN a ELSE b

LowerOf == [c \in { UpperSeq[i] : i \in 1..26 } |->
              LowerSeq[CHOOSE i \in 1..26 : UpperSeq[i] = c]]
toLowerChar(c) == IF c \in DOMAIN LowerOf THEN LowerOf[c] ELSE c

\* String.prototype.toLowerCase
toLowerCase(s) == SubSeq([i \in 1..Len(s) |-> toLowerChar(s[i])], 1, Len(s))

\* s has w at (1-based) position i
HasAt(s, w, i) ==
  /\ i >= 1
  /\ i + Len(w) - 1 <= Len(s)
  /\ \A j \in 1..Len(w) : s[i + j - 1] = w[j]

\* String.prototype.includes
includes(s, w) == \E i \in 1..(Len(s) + 1) : HasAt(s, w, i)

\* String.prototype.substring(0, n)
substring0(s, n) == SubSeq(s, 1, Min(n, Len(s)))

\* String.prototype.trim (the model's only white space is the blank)
trim(s) ==
  LET keep == { i \in 1..Len(s) : s[i] # " " }
  IN IF keep = {} THEN << >>
     ELSE SubSeq(s, CHOOSE i \in keep : \A j \in keep : i <= j,
                    CHOOSE i \in keep : \A j \in keep : i >= j)

\* text.substring(0, 100)
DescriptionLimit == 100

(***************************************************************************)
(* fallbackParsing (lib/geminiService.ts).                                 *)
(***************************************************************************)
FireTerms == { <<"f", "i", "r", "e">>, <<"b", "u", "r", "n", "i", "n", "g">>, <<"s", "m", "o", "k", "e">> }
AccidentTerms == { <<"a", "c", "c", "i", "d", "e", "n", "t">>, <<"c", "r", "a", "s", "h">>, <<"c", "o", "l", "l", "i", "s", "i", "o", "n">> }
MedicalTerms == { <<"m", "e", "d", "i", "c", "a", "l">>, <<"i", "n", "j", "u", "r", "e", "d">>, <<"h", "u", "r", "t">> }
CrimeTerms == { <<"c", "r", "i", "m", "e">>, <<"r", "o", "b", "b", "e", "r", "y">>, <<"t", "h", "e", "f", "t">> }
HazardTerms == { <<"t", "r", "e", "e">>, <<"d", "e", "b", "r", "i", "s">>, <<"b", "l", "o", "c", "k", "i", "n", "g">>, <<"p", "o", "t", "h", "o", "l", "e">>, <<"o", "b", "s", "t", "r", "u", "c", "t", "i", "o", "n">> }

includesAny(s, terms) == \E w \in terms : includes(s, w)

\* The chain with the medical terms tested before the accident terms.
keywordCategory_MedicalFirst(lowerText) ==
  IF includesAny(lowerText, FireTerms) THEN <<"fire", "critical">>
  ELSE IF includesAny(lowerText, MedicalTerms) THEN <<"medical", "high">>
  ELSE IF includesAny(lowerText, AccidentTerms) THEN <<"accident", "high">>
  ELSE IF includesAny(lowerText, CrimeTerms) THEN <<"crime", "high">>
  ELSE IF includesAny(lowerText, HazardTerms) THEN <<"hazard", "medium">>
  ELSE <<"other", "medium">>

\* The if / else-if chain on lowerText: <<incident_type, severity>>.
keywordCategory(lowerText) ==
  IF includesAny(lowerText, FireTerms) THEN <<"fire", "critical">>
  ELSE IF includesAny(lowerText, AccidentTerms) THEN <<"accident", "high">>
  ELSE IF includesAny(lowerText, MedicalTerms) THEN <<"medical", "high">>
  ELSE IF includesAny(lowerText, CrimeTerms) THEN <<"crime", "high">>
  ELSE IF includesAny(lowerText, HazardTerms) THEN <<"hazard", "medium">>
  ELSE <<"other", "medium">>

\* (?:street|st|avenue|ave|road|rd|boulevard|blvd|drive|dr|lane|ln), in order.
StreetSuffixes ==
  << <<"s", "t", "r", "e", "e", "t">>, <<"s", "t">>, <<"a", "v", "e", "n", "u", "e">>, <<"a", "v", "e">>, <<"r", "o", "a", "d">>, <<"r", "d">>,
     <<"b", "o", "u", "l", "e", "v", "a", "r", "d">>, <<"b", "l", "v", "d">>, <<"d", "r", "i", "v", "e">>, <<"d", "r">>, <<"l", "a", "n", "e">>, <<"l", "n">> >>

\* [a-z\s] under the i flag
IsNameChar(c) == c \in Letters \/ c = " "

\* Case-insensitive literal match at position i.
HasAtI(s, w, i) ==
  /\ i >= 1
  /\ i + Len(w) - 1 <= Len(s)
  /\ \A j \in 1..Len(w) : toLowerChar(s[i + j - 1]) = w[j]

\* Last position of the longest run of [a-z\s] characters starting at g
\* (g - 1 when there is none).
RunEnd(s, g) ==
  LET stops == { j \in g..Len(s) : ~IsNameChar(s[j]) }
  IN IF stops = {} THEN Len(s)
     ELSE (CHOOSE j \in stops : \A k \in stops : j <= k) - 1

\* The end positions k of [a-z\s]+ (starting at g) after which a suffix matches.
SuffixCuts(s, g) ==
  { k \in g..RunEnd(s, g) : \E a \in 1..Len(StreetSuffixes) : HasAtI(s, StreetSuffixes[a], k + 1) }

\* /<prefix>([a-z\s]+(?:street|...))/i : the group of the leftmost match,
\* the greedy [a-z\s]+ backtracking to the last cut, the first alternative
\* that matches there; << >> when there is no match.
matchStreet(s, prefix) ==
  LET starts == { i \in 1..Len(s) : HasAtI(s, prefix, i) /\ SuffixCuts(s, i + Len(prefix)) # {} }
  IN IF starts = {} THEN << >>
     ELSE LET i == CHOOSE x \in starts : \A y \in starts : x <= y
              g == i + Len(prefix)
              cuts == SuffixCuts(s, g)
              k == CHOOSE x \in cuts : \A y \in cuts : x >= y
              alts == { a \in 1..Len(StreetSuffixes) : HasAtI(s, StreetSuffixes[a], k + 1) }
              a == CHOOSE x \in alts : \A y \in alts : x <= y
          IN SubSeq(s, g, k + Len(StreetSuffixes[a]))

\* /near ([a-z\s]+)/i : the group of the leftmost match; << >> when none.
matchNear(s) ==
  LET prefix == <<"n", "e", "a", "r", " ">>
      starts == { i \in 1..Len(s) : HasAtI(s, prefix, i) /\ RunEnd(s, i + Len(prefix)) >= i + Len(prefix) }
  IN IF starts = {} THEN << >>
     ELSE LET i == CHOOSE x \in starts : \A y \in starts : x <= y
          IN SubSeq(s, i + Len(prefix), RunEnd(s, i + Len(prefix)))

CurrentLocationDefault == <<"C", "u", "r", "r", "e", "n", "t", " ", "l", "o", "c", "a", "t", "i", "o", "n">>

\* The loop over streetPatterns: the first pattern that matches decides.
extractLocation(text) ==
  LET onMatch == matchStreet(text, <<"o", "n", " ">>)
      atMatch == matchStreet(text, <<"a", "t", " ">>)
      nearMatch == matchNear(text)
  IN IF onMatch # << >> THEN trim(onMatch)
     ELSE IF atMatch # << >> THEN trim(atMatch)
     ELSE IF nearMatch # << >> THEN trim(nearMatch)
     ELSE CurrentLocationDefault

\* confidence: 0.5, in hundredths
FallbackConfidence == 50

\* fallbackParsing with the description cut at a length other than 100.
fallbackParsing_Untruncated(text) ==
  LET category == keywordCategory(toLowerCase(text))
  IN [incident_type |-> category[1],
      description |-> text,
      location_name |-> extractLocation(text),
      severity |-> category[2],
      confidence |-> FallbackConfidence]

fallbackParsing(text) ==
  LET category == keywordCategory(toLowerCase(text))
  IN [incident_type |-> category[1],
      description |-> substring0(text, DescriptionLimit),
      location_name |-> extractLocation(text),
      severity |-> category[2],
      confidence |-> FallbackConfidence]

(***************************************************************************)
(* parseVoiceToIncident (lib/geminiService.ts).  Numbers that the code     *)
(* keeps in [0,1] are integers in hundredths.                              *)
(***************************************************************************)
ValidTypes == {"crime", "accident", "fire", "medical", "hazard", "other"}
ValidSeverities == {"low", "medium", "high", "critical"}

\* A property that the parsed object does not have (undefined).
MissingField == "<undefined>"
MissingText == << "<undefined>" >>
\* NaN, the result of parseFloat on anything that is not a number.
NotANumber == -100000

\* !x for the string-valued properties
falsyField(x) == x = MissingField \/ x = ""
falsyText(x) == x = MissingText \/ x = << >>

\* parseFloat(x) || dflt : NaN and 0 are both falsy.
parseFloatOr(x, dflt) == IF x = NotANumber \/ x = 0 THEN dflt ELSE x

\* The response text, as the sequence of its parts: an opening json code
\* fence, a bare code fence, prose around the payload, the payload itself.
JsonPart == "payload"
NotJsonFence(t) == t # "fence-json"
NotFence(t) == t # "fence"
\* The two text.replace calls that delete the code fences, and the trim.
stripFences(text) == SelectSeq(SelectSeq(text, NotJsonFence), NotFence)

\* JSON.parse succeeds on exactly the payload, when the payload is JSON.
jsonParses(text, payload) == text = << JsonPart >> /\ payload.kind # "malformed"

EmptyIncident ==
  [incident_type |-> "", description |-> << >>, location_name |-> << >>,
   severity |-> "", confidence |-> 0]

Returned(v) == [state |-> "returned", value |-> v]
Threw == [state |-> "threw", value |-> EmptyIncident]
NotCalled == [state |-> "none", value |-> EmptyIncident]

\* The validation and coercion of the parsed object (the try block after
\* JSON.parse); reading a property of null throws, as does the validation.
coerceParsed(parsed, voiceText) ==
  IF parsed.kind # "object" THEN Returned(fallbackParsing(voiceText))
  ELSE IF \/ falsyField(parsed.incident_type)
          \/ falsyText(parsed.description)
          \/ falsyText(parsed.location_name)
    THEN Returned(fallbackParsing(voiceText))
  ELSE Returned(
    [incident_type |-> IF parsed.incident_type \in ValidTypes
                         THEN parsed.incident_type ELSE "other",
     description |-> parsed.description,
     location_name |-> parsed.location_name,
     severity |-> IF parsed.severity \in ValidSeverities
                    THEN parsed.severity ELSE "medium",
     confidence |-> Max(0, Min(100, parseFloatOr(parsed.confidence, 50)))])

\* parseVoiceToIncident: keyConfigured is !!import.meta.env.VITE_GEMINI_API_KEY,
\* ai is what the Gemini call does.
parseVoiceToIncident(voiceText, keyConfigured, ai) ==
  IF ~keyConfigured THEN Threw
  ELSE IF ai.failed THEN Returned(fallbackParsing(voiceText))
  ELSE IF ~jsonParses(stripFences(ai.text), ai.payload)
    THEN Returned(fallbackParsing(voiceText))
  ELSE coerceParsed(ai.payload, voiceText)

(***************************************************************************)
(* geocodeLocation, reverseGeocode, resolveLocation.                       *)
(***************************************************************************)
NullText == << "<null>" >>
NoGps == [present |-> FALSE, lat |-> 0, lng |-> 0]
NullGeocode ==
  [isNull |-> TRUE, lat |-> 0, lng |-> 0, display_name |-> NullText, confidence |-> 0]
NullLocation == [isNull |-> TRUE, lat |-> 0, lng |-> 0, location_name |-> NullText]

\* geocodeLocation with the latitude and the longitude exchanged.
geocodeLocation_LonLat(fwd) ==
  IF ~fwd.ok THEN NullGeocode
  ELSE IF Len(fwd.data) = 0 THEN NullGeocode
  ELSE LET result == fwd.data[1]
           confidence == parseFloatOr(result.importance, 50)
       IN [isNull |-> FALSE, lat |-> result.lon, lng |-> result.lat,
           display_name |-> result.display_name,
           confidence |-> Min(confidence, 100)]

\* geocodeLocation on the outcome of the Nominatim search request.
geocodeLocation(fwd) ==
  IF ~fwd.ok THEN NullGeocode
  ELSE IF Len(fwd.data) = 0 THEN NullGeocode
  ELSE LET result == fwd.data[1]
           confidence == parseFloatOr(result.importance, 50)
       IN [isNull |-> FALSE, lat |-> result.lat, lng |-> result.lon,
           display_name |-> result.display_name,
           confidence |-> Min(confidence, 100)]

\* reverseGeocode on the outcome of the Nominatim reverse request.
reverseGeocode(rev) ==
  IF ~rev.ok THEN NullText
  ELSE IF falsyText(rev.display_name) THEN NullText
  ELSE rev.display_name

currentLocationKeywords ==
  { <<"c", "u", "r", "r", "e", "n", "t", " ", "l", "o", "c", "a", "t", "i", "o", "n">>, <<"h", "e", "r", "e">>, <<"m", "y", " ", "l", "o", "c", "a", "t", "i", "o", "n">>, <<"t", "h", "i", "s", " ", "l", "o", "c", "a", "t", "i", "o", "n">> }

\* isCurrentLocationPhrase without the toLowerCase.
isCurrentLocationPhrase_CaseSensitive(locationName) ==
  \E keyword \in currentLocationKeywords : includes(locationName, keyword)

isCurrentLocationPhrase(locationName) ==
  \E keyword \in currentLocationKeywords : includes(toLowerCase(locationName), keyword)

\* The confidence gate of resolveLocation: geocoded.confidence > 0.5
GateThreshold == 50
\* The gate with >= in place of >.
passesGate_Inclusive(geocoded) == ~geocoded.isNull /\ geocoded.confidence >= GateThreshold

passesGate(geocoded) == ~geocoded.isNull /\ geocoded.confidence > GateThreshold

CurrentLocationLabel == <<"C", "u", "r", "r", "e", "n", "t", " ", "L", "o", "c", "a", "t", "i", "o", "n">>

\* resolveLocation: its result and the geocoding requests it made.
resolveLocation(locationName, callerGps, fwd, rev) ==
  IF isCurrentLocationPhrase(locationName)
    THEN IF ~callerGps.present
           THEN [result |-> NullLocation, calls |-> << >>]
           ELSE [result |-> [isNull |-> FALSE, lat |-> callerGps.lat,
                             lng |-> callerGps.lng,
                             location_name |-> IF reverseGeocode(rev) = NullText
                                                 THEN CurrentLocationLabel
                                                 ELSE reverseGeocode(rev)],
                 calls |-> << "reverse" >>]
  ELSE IF passesGate(geocodeLocation(fwd))
    THEN [result |-> [isNull |-> FALSE, lat |-> geocodeLocation(fwd).lat,
                      lng |-> geocodeLocation(fwd).lng,
                      location_name |-> geocodeLocation(fwd).display_name],
          calls |-> << "forward" >>]
  ELSE IF callerGps.present
    THEN [result |-> [isNull |-> FALSE, lat |-> callerGps.lat,
                      lng |-> callerGps.lng,
                      location_name |-> IF reverseGeocode(rev) = NullText
                                          THEN locationName
                                          ELSE reverseGeocode(rev)],
          calls |-> << "forward", "reverse" >>]
  ELSE [result |-> NullLocation, calls |-> << "forward" >>]

(***************************************************************************)
(* State of the voice pipeline (VoiceReportButton and the functions it     *)
(* awaits).                                                                *)
(***************************************************************************)
VARIABLES
  apiKeyConfigured,   \* import.meta.env.VITE_GEMINI_API_KEY is set
  voiceGps,           \* prop userLocation of VoiceReportButton
  recognitionState,   \* the SpeechRecognition object: inactive, starting,
                      \* listening, stopping, ending
  isListening,        \* state isListening
  isProcessing,       \* state isProcessing
  transcript,         \* state transcript
  voiceError,         \* state error ("" for null)
  pc,                 \* where the onresult handler is: idle, parse, resolve
  voiceText,          \* the text the running onresult handler captured
  parsedIncident,     \* what parseVoiceToIncident did in this run
  locationData,       \* what resolveLocation returned in this run
  geoCalls,           \* the geocoding requests resolveLocation made
  delivered,          \* the argument of onIncidentParsed in this run
  clearTimer,         \* the setTimeout that clears the transcript is pending
  aiSeen,             \* how the AI call of this run ended
  fwdSeen,            \* the forward geocoding response of this run
  revSeen,            \* the reverse geocoding response of this run
  steps,              \* the steps the onresult handler of this run has logged
  calls               \* the calls the onresult handler of this run has awaited

voiceVars == <<apiKeyConfigured, voiceGps, recognitionState, isListening,
               isProcessing, transcript, voiceError, pc, voiceText,
               parsedIncident, locationData, geoCalls, delivered, clearTimer,
               aiSeen, fwdSeen, revSeen, steps, calls>>

(***************************************************************************)
(* State of the Dashboard's two report paths: the confirmation modal of    *)
(* voice reports (VoiceConfirmModal) and the ReportModal, and the incidents *)
(* table they insert into.                                                 *)
(***************************************************************************)
VARIABLES
  user,                    \* useAuth().user is set
  voiceConfirmData,        \* Dashboard state voiceConfirmData
  editedData,              \* VoiceConfirmModal state editedData
  isEditing,               \* VoiceConfirmModal state isEditing
  isSubmitting,            \* VoiceConfirmModal state isSubmitting
  isReportModalOpen,       \* Dashboard state isReportModalOpen
  selectedReportLocation,  \* Dashboard state selectedReportLocation
  incidentType,            \* ReportModal state incidentType
  description,             \* ReportModal state description
  reportIsSubmitting,      \* ReportModal state isSubmitting
  inFlight,                \* the insert requests that have not settled
  inserted,                \* the row the incidents table accepted in the last step
  gateAction               \* the handler that ran last

gateVars == <<user, voiceConfirmData, editedData, isEditing, isSubmitting,
              isReportModalOpen, selectedReportLocation, incidentType,
              description, reportIsSubmitting, inFlight, inserted,
              gateAction>>

vars == <<proxVars, voiceVars, gateVars>>

(***************************************************************************)
(* The inputs of the voice pipeline.                                       *)
(***************************************************************************)
\* Length of the filler that makes a transcript longer than 100 characters.
PadLen == 75
Filler == [i \in 1..PadLen |-> IF i % 3 = 0 THEN " " ELSE "a"]

Transcripts ==
  { <<"A", " ", "t", "r", "e", "e", " ", "i", "s", " ", "b", "l", "o", "c", "k", "i", "n", "g", " ", "t", "h", "e", " ", "r", "o", "a", "d", " ", "o", "n", " ", "C", "o", "o", "p", "e", "r", " ", "S", "t", "r", "e", "e", "t">>,
    << >>,
    <<"s", "m", "o", "k", "e", " ", "o", "n", " ", "E", "l", "m", " ", "R", "o", "a", "d", " ", "n", "e", "a", "r", " ", "t", "h", "e", " ", "s", "t", "a", "t", "i", "o", "n", " ", "m", "a", "s", "t", "e", "r", " ">> \o Filler,
    <<"H", "E", "L", "P", " ", "r", "o", "b", "b", "e", "r", "y", " ", "a", "t", " ", "5", "t", "h", " ", "a", "v", "e", "n", "u", "e">>,
    <<"c", "a", "m", "p", "f", "i", "r", "e", " ", "n", "e", "a", "r", " ", "t", "h", "e", " ", "l", "a", "k", "e", ".">>,
    <<"I", " ", "a", "m", " ", "h", "u", "r", "t", " ", "a", "f", "t", "e", "r", " ", "a", " ", "c", "r", "a", "s", "h">> }

AiDescription == <<"k", "i", "t", "c", "h", "e", "n", " ", "f", "i", "r", "e">>
CooperStreet == <<"C", "o", "o", "p", "e", "r", " ", "S", "t", "r", "e", "e", "t">>

ObjectPayload(t, d, l, sv, c) ==
  [kind |-> "object", incident_type |-> t, description |-> d,
   location_name |-> l, severity |-> sv, confidence |-> c]

OtherPayload(k) ==
  [kind |-> k, incident_type |-> MissingField, description |-> MissingText,
   location_name |-> MissingText, severity |-> MissingField,
   confidence |-> NotANumber]

\* A well-formed answer, and the answers that differ from it in one property.
BasePayload == ObjectPayload("fire", AiDescription, CooperStreet, "high", 70)
AiPayloads ==
  { BasePayload }
  \cup { [BasePayload EXCEPT !.incident_type = t] : t \in {MissingField, "vandalism"} }
  \cup { [BasePayload EXCEPT !.description = d] : d \in {MissingText, << >>} }
  \cup { [BasePayload EXCEPT !.location_name = l] :
           l \in {MissingText, <<"M", "y", " ", "L", "o", "c", "a", "t", "i", "o", "n">>, <<"H", "e", "r", "e", "f", "o", "r", "d", " ", "R", "o", "a", "d">>} }
  \cup { [BasePayload EXCEPT !.severity = sv] : sv \in {MissingField, "extreme", "critical"} }
  \cup { [BasePayload EXCEPT !.confidence = c] : c \in {NotANumber, -50, 0, 69, 150} }
  \cup { OtherPayload(k) : k \in {"malformed", "null", "array"} }

\* What the Gemini call can do: reject, or answer with some text around a
\* payload.
AiOutcomes ==
  { [failed |-> TRUE, text |-> << >>, payload |-> OtherPayload("malformed")] }
  \cup { [failed |-> FALSE, text |-> << JsonPart >>, payload |-> y] : y \in AiPayloads }
  \cup { [failed |-> FALSE, text |-> x, payload |-> BasePayload] :
           x \in { << "fence-json", JsonPart, "fence" >>, << "prose", JsonPart >> } }
NoAi == [failed |-> TRUE, text |-> << >>, payload |-> OtherPayload("malformed")]

SomeGps == [present |-> TRUE, lat |-> 327767, lng |-> -967970]
GeoName == <<"C", "o", "o", "p", "e", "r", " ", "S", "t", "r", "e", "e", "t", ",", " ", "D", "a", "l", "l", "a", "s">>
ReverseName == <<"M", "a", "i", "n", " ", "S", "t", "r", "e", "e", "t", ",", " ", "D", "a", "l", "l", "a", "s">>

ProviderResult(la, lo, imp) ==
  [lat |-> la, lon |-> lo, display_name |-> GeoName, importance |-> imp]

\* What the Nominatim search can do: fail (network error, non-OK status),
\* answer with no candidate, or answer with a first candidate.
ForwardOutcomes ==
  { [ok |-> FALSE, data |-> << >>], [ok |-> TRUE, data |-> << >>] }
  \cup { [ok |-> TRUE, data |-> << ProviderResult(327800, -967900, imp) >>] :
           imp \in {NotANumber, -20, 0, 30, 50, 51, 85, 150} }
  \cup { [ok |-> TRUE, data |-> << ProviderResult(NotANumber, NotANumber, 85) >>] }
NoForward == [ok |-> FALSE, data |-> << >>]

\* What the Nominatim reverse lookup can do.
ReverseOutcomes ==
  { [ok |-> FALSE, display_name |-> MissingText],
    [ok |-> TRUE, display_name |-> MissingText],
    [ok |-> TRUE, display_name |-> ReverseName] }
NoReverse == [ok |-> FALSE, display_name |-> MissingText]

NotResolved == [state |-> "none", value |-> NullLocation]
Resolved(v) == [state |-> "returned", value |-> v]

NotDelivered ==
  [called |-> FALSE, incident_type |-> "", description |-> << >>,
   latitude |-> 0, longitude |-> 0, location_name |-> << >>, confidence |-> 0]

(***************************************************************************)
(* State machine of the ChatbotAssistant session.                          *)
(***************************************************************************)
NoClosure == [active |-> FALSE, inc |-> Undefined]

Bump(cnt, ids) ==
  [id \in IncidentIds |->
     IF id \in ids /\ cnt[id] < MaxCount THEN cnt[id] + 1 ELSE cnt[id]]

UserMonitored ==
  userLocation # Null /\ userKey(userLocation) \in monitoredLocations

\* The value of voiceConfirmData and editedData: null, or the tuple that
\* VoiceReportButton hands to onIncidentParsed.
NoConfirmData ==
  [present |-> FALSE, incident_type |-> "", description |-> << >>,
   latitude |-> 0, longitude |-> 0, location_name |-> << >>, confidence |-> 0]
ConfirmData(t, d, la, lo, n, c) ==
  [present |-> TRUE, incident_type |-> t, description |-> d,
   latitude |-> la, longitude |-> lo, location_name |-> n, confidence |-> c]
asConfirmData(incident) ==
  ConfirmData(incident.incident_type, incident.description, incident.latitude,
              incident.longitude, incident.location_name, incident.confidence)

\* Two tuples that VoiceReportButton delivers: the AI's answer at the
\* geocoder's coordinates, and the AI's answer at a candidate whose lat/lon
\* texts are not numeric.
GeocodedReport == ConfirmData("fire", AiDescription, 327800, -967900, GeoName, 70)
NaNReport == ConfirmData("fire", AiDescription, NotANumber, NotANumber, GeoName, 69)
DeliveredReports == {GeocodedReport, NaNReport}

\* The places a map click or the browser's geolocation can give.
NoPlace == [present |-> FALSE, lat |-> 0, lng |-> 0]
MapPlaces == { [present |-> TRUE, lat |-> 327800, lng |-> -967900] }

\* JSON.stringify of a number: NaN becomes null.
JsonNull == -200000
jsonNumber(x) == IF x = NotANumber THEN JsonNull ELSE x

NoRow ==
  [present |-> FALSE, path |-> "", orphan |-> FALSE, cancelled |-> FALSE,
   incident_type |-> "",
   description |-> << >>, latitude |-> 0, longitude |-> 0,
   location_name |-> << >>, status |-> ""]
\* The body of an insert request, with the modal it came from (path),
\* whether that modal has been unmounted since (orphan) and whether the user
\* closed it since (cancelled).
InsertRequest(p, t, d, la, lo, n) ==
  [present |-> TRUE, path |-> p, orphan |-> FALSE, cancelled |-> FALSE,
   incident_type |-> t,
   description |-> d, latitude |-> jsonNumber(la), longitude |-> jsonNumber(lo),
   location_name |-> n, status |-> "active"]

\* The incidents table with nullable coordinates.
dbAccepts_Nullable(row) == TRUE

\* The incidents table: incident_type, description, latitude and longitude
\* are NOT NULL.
dbAccepts(row) == row.latitude # JsonNull /\ row.longitude # JsonNull

\* The Dashboard and its modals right after mounting.
GateIdle ==
  /\ voiceConfirmData = NoConfirmData
  /\ editedData = NoConfirmData
  /\ isEditing = FALSE
  /\ isSubmitting = FALSE
  /\ isReportModalOpen = FALSE
  /\ selectedReportLocation = NoPlace
  /\ incidentType = "crime"
  /\ description = << >>
  /\ reportIsSubmitting = FALSE
  /\ inFlight = {}
  /\ inserted = NoRow
  /\ gateAction = "none"

\* The voice pipeline at rest, as the ChatbotAssistant specifications keep it.
VoiceIdle ==
  /\ recognitionState = "inactive"
  /\ isListening = FALSE
  /\ isProcessing = FALSE
  /\ transcript = << >>
  /\ voiceError = ""
  /\ pc = "idle"
  /\ voiceText = << >>
  /\ parsedIncident = NotCalled
  /\ locationData = NotResolved
  /\ geoCalls = << >>
  /\ delivered = NotDelivered
  /\ clearTimer = FALSE
  /\ aiSeen = NoAi
  /\ fwdSeen = NoForward
  /\ revSeen = NoReverse
  /\ steps = << >>
  /\ calls = << >>

ProxInit(recorded) ==
  /\ track = recorded
  /\ incidents = Undefined
  /\ userLocation \in {Null} \cup UserLats
  /\ pinnedLocation = Null
  /\ lastAnnouncedIncidents = {}
  /\ monitoredLocations = {}
  /\ effectPending = TRUE
  /\ emitted = {}
  /\ speechFailed = {}
  /\ announceCount = [id \in IncidentIds |-> 0]
  /\ lastAction = "other"
  /\ registered = [t \in {"pinned", "user"} |-> {}]
  /\ enteredNear = {}
  /\ enteredFar = {}
  /\ enteredQuiet = {}
  /\ arrivedNear = {}
  /\ monitoredRef = 0
  /\ messages = {}
  /\ searchClosure = NoClosure

InitProx(recorded) ==
  /\ ProxInit(recorded)
  /\ apiKeyConfigured = TRUE
  /\ voiceGps = NoGps
  /\ VoiceIdle
  /\ user = TRUE
  /\ GateIdle

\* What every handler (not the effect) does to the bookkeeping variables.
HandlerFrame(name) ==
  /\ lastAction' = name
  /\ monitoredRef' = monitoredRef
  /\ emitted' = {}
  /\ speechFailed' = {}
  /\ UNCHANGED <<announceCount, registered, track>>
  /\ UNCHANGED <<voiceVars, gateVars>>

\* The query delivers its first result.
IncidentsLoaded ==
  /\ incidents = Undefined
  /\ \E k \in 0..MaxIncidents : \E f \in [1..k -> IncidentLats] : incidents' = f
  /\ effectPending' = TRUE
  /\ HandlerFrame("other")
  /\ UNCHANGED <<userLocation, pinnedLocation, lastAnnouncedIncidents,
                 monitoredLocations, enteredNear, enteredFar, enteredQuiet, arrivedNear, messages,
                 searchClosure>>

\* A new incident is pushed by the live query.
IncidentCreated ==
  /\ incidents # Undefined
  /\ Len(incidents) < MaxIncidents
  /\ \E lat \in IncidentLats :
       LET id == Len(incidents) + 1
           locs == locationsToMonitor(pinnedLocation, userLocation)
           \* every current location is already monitored
           settled == /\ Len(locs) > 0
                      /\ \A i \in DOMAIN locs : locs[i].key \in monitoredLocations
           nearUser == /\ settled
                       /\ userLocation # Null
                       /\ calculateDistance(userLocation, 0, lat, 0) <= RadiusMilli
           farAll == /\ settled
                     /\ \A i \in DOMAIN locs :
                          calculateDistance(locs[i].lat, 0, lat, 0) > RadiusMilli
       IN /\ incidents' = Append(incidents, lat)
          /\ enteredNear' = IF nearUser /\ "entered" \in track
                               THEN enteredNear \cup {id} ELSE enteredNear
          /\ enteredFar' = IF farAll /\ "entered" \in track
                              THEN enteredFar \cup {id} ELSE enteredFar
          /\ enteredQuiet' = IF settled /\ "entered" \in track
                                THEN enteredQuiet \cup {id} ELSE enteredQuiet
          /\ arrivedNear' =
               IF /\ "arrived" \in track
                  /\ userLocation # Null
                  /\ calculateDistance(userLocation, 0, lat, 0) <= RadiusMilli
                 THEN arrivedNear \cup {id} ELSE arrivedNear
  /\ effectPending' = TRUE
  /\ HandlerFrame("other")
  /\ UNCHANGED <<userLocation, pinnedLocation, lastAnnouncedIncidents,
                 monitoredLocations, messages, searchClosure>>

\* An officer changes a status: the query returns a new array, same ids.
IncidentUpdated ==
  /\ incidents # Undefined
  /\ Len(incidents) > 0
  /\ effectPending' = TRUE
  /\ HandlerFrame("other")
  /\ UNCHANGED <<incidents, userLocation, pinnedLocation, lastAnnouncedIncidents,
                 monitoredLocations, enteredNear, enteredFar, enteredQuiet, arrivedNear, messages,
                 searchClosure>>

\* The parent passes another userLocation prop.
UserLocationChanged ==
  /\ \E l \in ({Null} \cup UserLats) \ {userLocation} :
       /\ userLocation' = l
       /\ arrivedNear' =
            IF l = Null THEN {}
            ELSE { id \in arrivedNear :
                     calculateDistance(l, 0, incidents[id], 0) <= RadiusMilli }
  /\ effectPending' = TRUE
  /\ enteredNear' = {}
  /\ enteredFar' = {}
  /\ enteredQuiet' = {}
  /\ HandlerFrame("other")
  /\ UNCHANGED <<incidents, pinnedLocation, lastAnnouncedIncidents,
                 monitoredLocations, messages, searchClosure>>

\* setPinnedLocation + generateLocationReport, as both pin handlers do it;
\* inc is the incidents value of the handler's closure.
Pin(lat, inc) ==
  /\ pinnedLocation' = lat
  /\ lastAnnouncedIncidents' = generateLocationReport(inc, lat)
  /\ messages' = messages \cup {0}
  /\ effectPending' = TRUE
  /\ enteredFar' = {}
  /\ enteredQuiet' = {}
  /\ UNCHANGED <<incidents, userLocation, monitoredLocations, enteredNear,
                 arrivedNear>>

handleSelectSearchResult ==
  /\ \E lat \in PinLats : Pin(lat, incidents)
  /\ HandlerFrame("pin")
  /\ UNCHANGED searchClosure

\* handleLocationSearch up to its await of searchLocation.
handleLocationSearchStart ==
  /\ ~searchClosure.active
  /\ searchClosure' = [active |-> TRUE, inc |-> incidents]
  /\ HandlerFrame("other")
  /\ UNCHANGED <<incidents, userLocation, pinnedLocation, lastAnnouncedIncidents,
                 monitoredLocations, effectPending, enteredNear, enteredFar, enteredQuiet, arrivedNear,
                 messages>>

\* handleLocationSearch after searchLocation returned a first result.
handleLocationSearchFound ==
  /\ searchClosure.active
  /\ \E lat \in PinLats : Pin(lat, searchClosure.inc)
  /\ searchClosure' = NoClosure
  /\ HandlerFrame("pin")

\* handleLocationSearch after searchLocation returned [] (also on its errors).
handleLocationSearchEmpty ==
  /\ searchClosure.active
  /\ searchClosure' = NoClosure
  /\ HandlerFrame("other")
  /\ UNCHANGED <<incidents, userLocation, pinnedLocation, lastAnnouncedIncidents,
                 monitoredLocations, effectPending, enteredNear, enteredFar, enteredQuiet, arrivedNear,
                 messages>>

\* The unpin button of the pinned-location status line.
Unpin ==
  /\ pinnedLocation # Null
  /\ pinnedLocation' = Null
  /\ monitoredLocations' = {}
  /\ effectPending' = TRUE
  /\ enteredFar' = {}
  /\ enteredQuiet' = {}
  /\ HandlerFrame("other")
  /\ UNCHANGED <<incidents, userLocation, lastAnnouncedIncidents, enteredNear,
                 arrivedNear, messages, searchClosure>>

clearChat ==
  /\ messages # {}
  /\ messages' = {}
  /\ HandlerFrame("other")
  /\ UNCHANGED <<incidents, userLocation, pinnedLocation, lastAnnouncedIncidents,
                 monitoredLocations, effectPending, enteredNear, enteredFar, enteredQuiet, arrivedNear,
                 searchClosure>>

\* The announce loop with the alert appended after the speech succeeded.
alertedIds_AfterSpeech(found, failed) == { e.id : e \in found } \ failed

\* The announce loop: the ids whose alert message is appended to the chat
\* log, failed being those whose textToSpeech call throws or rejects.
alertedIds(found, failed) == { e.id : e \in found }

\* React runs the proximity effect after a render in which a dependency
\* changed.
RunProximityEffect ==
  /\ effectPending
  /\ LET out == ProximityEffect(incidents, pinnedLocation, userLocation,
                                lastAnnouncedIncidents, monitoredLocations)
         locs == locationsToMonitor(pinnedLocation, userLocation)
     IN /\ lastAnnouncedIncidents' = out.announced
        /\ monitoredLocations' = out.monitored
        /\ emitted' = out.emitted
        /\ effectPending' = out.setState
        /\ announceCount' = IF "count" \in track
                               THEN Bump(announceCount, { e.id : e \in out.emitted })
                               ELSE announceCount
        /\ \E failed \in SUBSET { e.id : e \in out.emitted } :
             /\ speechFailed' = failed
             /\ messages' = messages \cup alertedIds(out.emitted, failed)
        /\ registered' =
             [t \in {"pinned", "user"} |->
                IF /\ "registered" \in track
                   /\ \E i \in DOMAIN locs : locs[i].type = t /\ locs[i].key \in out.newKeys
                  THEN IncidentSet ELSE registered[t]]
        /\ monitoredRef' =
             IF /\ "identity" \in track
                /\ \/ incidents # Undefined /\ Len(locs) = 0
                   \/ out.newKeys # {}
               THEN 1 - monitoredRef ELSE monitoredRef
  /\ lastAction' = "effect"
  /\ UNCHANGED <<incidents, userLocation, pinnedLocation, enteredNear,
                 enteredFar, enteredQuiet, arrivedNear, searchClosure, track>>
  /\ UNCHANGED <<voiceVars, gateVars>>

NextProx ==
  \/ IncidentsLoaded
  \/ IncidentCreated
  \/ IncidentUpdated
  \/ UserLocationChanged
  \/ handleSelectSearchResult
  \/ handleLocationSearchStart
  \/ handleLocationSearchFound
  \/ handleLocationSearchEmpty
  \/ Unpin
  \/ clearChat
  \/ RunProximityEffect

\* The session, with none of the optional history variables recorded.
Init == InitProx({})
Spec == Init /\ [][NextProx]_vars

\* The session in which React runs every pending effect.
InitSettle == InitProx({"identity"})
SpecSettle == InitSettle /\ [][NextProx]_vars /\ WF_vars(RunProximityEffect)

\* The session in which React runs every pending effect, recording the
\* incidents that arrive near the user's point and the number of
\* announcements per incident.
InitArrived == InitProx({"arrived", "count"})
SpecArrived == InitArrived /\ [][NextProx]_vars /\ WF_vars(RunProximityEffect)

\* The session, recording the number of announcements per incident.
InitCount == InitProx({"count"})
SpecCount == InitCount /\ [][NextProx]_vars

\* The session, recording which incidents each monitored key found at its
\* registration.
InitRegistered == InitProx({"registered"})
SpecRegistered == InitRegistered /\ [][NextProx]_vars

\* The session, recording the incidents that arrive while the user's point
\* is monitored, and the number of announcements per incident.
InitEntered == InitProx({"entered", "count"})
SpecEntered == InitEntered /\ [][NextProx]_vars

(***************************************************************************)
(* State machine of the VoiceReportButton: the SpeechRecognition events,   *)
(* the button, and the asynchronous onresult handler, one step per await.  *)
(***************************************************************************)
KeyMissingMessage == "Gemini API key not configured. Please add VITE_GEMINI_API_KEY to your .env file."
NoLocationMessage == "Could not determine location. Please try again with a specific street name or enable GPS."
StartFailedMessage == "Failed to start voice recognition"
RecognitionErrors == {"no-speech", "not-allowed", "network"}
recognitionErrorMessage(e) ==
  IF e = "no-speech" THEN "No speech detected. Please try again."
  ELSE IF e = "not-allowed" THEN "Microphone access denied. Please allow microphone access."
  ELSE "Voice recognition error: " \o e

\* The ChatbotAssistant at rest, as the voice specification keeps it.
ProxIdle ==
  /\ ProxInit({})
  /\ userLocation = Null

InitVoice ==
  /\ ProxIdle
  /\ apiKeyConfigured \in BOOLEAN
  /\ voiceGps \in {NoGps, SomeGps}
  /\ VoiceIdle
  /\ user = TRUE
  /\ GateIdle

VoiceFrame == UNCHANGED <<proxVars, apiKeyConfigured, voiceGps, gateVars>>
RunUnchanged ==
  UNCHANGED <<pc, voiceText, parsedIncident, locationData, geoCalls, delivered,
              aiSeen, fwdSeen, revSeen, steps, calls>>

\* The button never disabled.
isDisabled_Never(processing) == FALSE

\* const isDisabled = isProcessing || !recognition, with the recognition
\* object present.
isDisabled(processing) == processing

\* handleClick while not listening: recognition.start(), which throws unless
\* the recognition object is inactive.
handleClickStart ==
  /\ ~isDisabled(isProcessing)
  /\ ~isListening
  /\ IF recognitionState = "inactive"
       THEN recognitionState' = "starting" /\ UNCHANGED voiceError
       ELSE voiceError' = StartFailedMessage /\ UNCHANGED recognitionState
  /\ UNCHANGED <<isListening, isProcessing, transcript, clearTimer>>
  /\ RunUnchanged
  /\ VoiceFrame

\* handleClick while listening: recognition.stop()
handleClickStop ==
  /\ ~isDisabled(isProcessing)
  /\ isListening
  /\ recognitionState' = IF recognitionState \in {"starting", "listening"}
                           THEN "stopping" ELSE recognitionState
  /\ isListening' = FALSE
  /\ UNCHANGED <<isProcessing, transcript, voiceError, clearTimer>>
  /\ RunUnchanged
  /\ VoiceFrame

onstart ==
  /\ recognitionState = "starting"
  /\ recognitionState' = "listening"
  /\ isListening' = TRUE
  /\ voiceError' = ""
  /\ transcript' = << >>
  /\ UNCHANGED <<isProcessing, clearTimer>>
  /\ RunUnchanged
  /\ VoiceFrame

\* onresult up to its first await.
onresult ==
  /\ recognitionState \in {"listening", "stopping"}
  /\ \E text \in Transcripts :
       /\ transcript' = text
       /\ voiceText' = text
       /\ calls' = <<[fn |-> "parseVoiceToIncident", arg |-> text]>>
  /\ steps' = <<"Voice Captured", "Gemini AI Parsing">>
  /\ recognitionState' = "ending"
  /\ isListening' = FALSE
  /\ isProcessing' = TRUE
  /\ pc' = "parse"
  /\ parsedIncident' = NotCalled
  /\ locationData' = NotResolved
  /\ geoCalls' = << >>
  /\ delivered' = NotDelivered
  /\ aiSeen' = NoAi
  /\ fwdSeen' = NoForward
  /\ revSeen' = NoReverse
  /\ UNCHANGED <<voiceError, clearTimer>>
  /\ VoiceFrame

onerror ==
  /\ recognitionState \in {"starting", "listening", "stopping"}
  /\ recognitionState' = "ending"
  /\ isListening' = FALSE
  /\ isProcessing' = FALSE
  /\ \E e \in RecognitionErrors : voiceError' = recognitionErrorMessage(e)
  /\ UNCHANGED <<transcript, clearTimer>>
  /\ RunUnchanged
  /\ VoiceFrame

onend ==
  /\ recognitionState \in {"listening", "stopping", "ending"}
  /\ recognitionState' = "inactive"
  /\ isListening' = FALSE
  /\ UNCHANGED <<isProcessing, transcript, voiceError, clearTimer>>
  /\ RunUnchanged
  /\ VoiceFrame

\* The handler ending without resetting the flag.
processingAfterRun_Kept(processing) == processing

\* finally { setIsProcessing(false) }
processingAfterRun(processing) == FALSE

\* The description sent to the geocoder.
geocodingQuery_Description(parsed) == parsed.description

\* The first argument of resolveLocation.
geocodingQuery(parsed) == parsed.location_name

\* onresult from the await of parseVoiceToIncident to the next await, or
\* through catch and finally when the promise is rejected.
ParseDone ==
  /\ pc = "parse"
  /\ \E ai \in AiOutcomes :
       LET r == parseVoiceToIncident(voiceText, apiKeyConfigured, ai)
       IN /\ parsedIncident' = r
          /\ aiSeen' = IF apiKeyConfigured THEN ai ELSE NoAi
          /\ IF r.state = "threw"
               THEN /\ voiceError' = KeyMissingMessage
                    /\ isProcessing' = processingAfterRun(isProcessing)
                    /\ pc' = "idle"
                    /\ steps' = Append(steps, "Error")
                    /\ UNCHANGED calls
               ELSE /\ pc' = "resolve"
                    /\ steps' = steps \o <<"Gemini AI Response", "Geocoding">>
                    /\ calls' = Append(calls, [fn |-> "resolveLocation",
                                               arg |-> geocodingQuery(r.value)])
                    /\ UNCHANGED <<voiceError, isProcessing>>
  /\ UNCHANGED <<recognitionState, isListening, transcript, voiceText,
                 locationData, geoCalls, delivered, clearTimer, fwdSeen, revSeen>>
  /\ VoiceFrame

\* if (!locationData) with the test never taken.
locationMissing_Never(result) == FALSE

\* if (!locationData)
locationMissing(result) == result.isNull

\* onresult from the await of resolveLocation to the end of the handler.
ResolveDone ==
  /\ pc = "resolve"
  /\ \E fwd \in ForwardOutcomes, rev \in ReverseOutcomes :
       LET out == resolveLocation(calls[2].arg, voiceGps, fwd, rev)
           asked(c) == \E i \in 1..Len(out.calls) : out.calls[i] = c
       IN /\ locationData' = Resolved(out.result)
          /\ geoCalls' = out.calls
          /\ fwdSeen' = IF asked("forward") THEN fwd ELSE NoForward
          /\ revSeen' = IF asked("reverse") THEN rev ELSE NoReverse
          /\ IF locationMissing(out.result)
               THEN /\ voiceError' = NoLocationMessage
                    /\ steps' = steps \o <<"Geocoding Failed", "Error">>
                    /\ UNCHANGED <<delivered, clearTimer>>
               ELSE /\ delivered' =
                         [called |-> TRUE,
                          incident_type |-> parsedIncident.value.incident_type,
                          description |-> parsedIncident.value.description,
                          latitude |-> out.result.lat,
                          longitude |-> out.result.lng,
                          location_name |-> out.result.location_name,
                          confidence |-> parsedIncident.value.confidence]
                    /\ clearTimer' = TRUE
                    /\ steps' = steps \o <<"Geocoding Success",
                                           "Opening Confirmation Modal">>
                    /\ UNCHANGED voiceError
  /\ isProcessing' = processingAfterRun(isProcessing)
  /\ pc' = "idle"
  /\ UNCHANGED <<recognitionState, isListening, transcript, voiceText,
                 parsedIncident, aiSeen, calls>>
  /\ VoiceFrame

\* The setTimeout callback that clears the transcript.
clearTranscript ==
  /\ clearTimer
  /\ clearTimer' = FALSE
  /\ transcript' = << >>
  /\ UNCHANGED <<recognitionState, isListening, isProcessing, voiceError>>
  /\ RunUnchanged
  /\ VoiceFrame

NextVoice ==
  \/ handleClickStart
  \/ handleClickStop
  \/ onstart
  \/ onresult
  \/ onerror
  \/ onend
  \/ ParseDone
  \/ ResolveDone
  \/ clearTranscript

SpecVoice == InitVoice /\ [][NextVoice]_vars

\* The button when every call of the extractor and of the resolver that the
\* handler awaits settles.
\* Only ParseDone leaves pc = "parse" and only ResolveDone leaves
\* pc = "resolve": weak fairness of these two steps is weak fairness of the
\* continuation of onresult after each await.
InitSettling == InitVoice
parseSettles == pc = "parse" /\ pc' \in {"idle", "resolve"}
resolveSettles == pc = "resolve" /\ pc' = "idle"
SpecSettling ==
  InitSettling /\ [][NextVoice]_vars /\ WF_pc(parseSettles) /\ WF_pc(resolveSettles)

(***************************************************************************)
(* State machine of the Dashboard's report paths.  VoiceReportButton's     *)
(* call of onIncidentParsed is recorded in delivered by ResolveDone; what  *)
(* the Dashboard does with the tuple is handleVoiceIncidentParsed here,    *)
(* which draws the tuple from DeliveredReports.  No handler of the button  *)
(* reads the Dashboard's state, so the button can deliver at any time.     *)
(***************************************************************************)
\* At most this many insert requests are awaited at once.
MaxInFlight == 1

EditedTypes == {"crime"}
EditedDescriptions == { << >> }
EditedLocationNames == { <<"E", "l", "m", " ", "R", "o", "a", "d">> }
TypedDescriptions == { <<"b", "r", "o", "k", "e", "n", " ", "w", "i", "n", "d", "o", "w">> }

InitGate ==
  /\ ProxIdle
  /\ apiKeyConfigured = TRUE
  /\ voiceGps = NoGps
  /\ VoiceIdle
  /\ user \in BOOLEAN
  /\ GateIdle

GateFrame(name) ==
  /\ gateAction' = name
  /\ name # "inserted" => inserted' = NoRow
  /\ UNCHANGED <<proxVars, apiKeyConfigured, recognitionState, isListening,
                 isProcessing, transcript, voiceError, pc, voiceText,
                 parsedIncident, locationData, geoCalls, delivered, clearTimer,
                 aiSeen, fwdSeen, revSeen, steps, calls, user>>

ConfirmUnchanged == UNCHANGED <<voiceConfirmData, editedData, isEditing, isSubmitting>>
ReportUnchanged ==
  UNCHANGED <<isReportModalOpen, selectedReportLocation, incidentType,
              description, reportIsSubmitting>>

\* The requests of one modal, marked as coming from a modal that is gone.
orphaned(requests, p) ==
  { IF e.path = p THEN [e EXCEPT !.orphan = TRUE] ELSE e : e \in requests }
\* The same, when it is the user who closed the modal.
cancelled(requests, p) ==
  { IF e.path = p THEN [e EXCEPT !.orphan = TRUE, !.cancelled = TRUE] ELSE e :
      e \in requests }

\* handleVoiceIncidentParsed: setVoiceConfirmData(incident).  The modal is
\* mounted while voiceConfirmData is set; useState(parsedData) takes the
\* prop only when the modal mounts.
handleVoiceIncidentParsed ==
  /\ \E incident \in DeliveredReports :
       /\ voiceConfirmData' = incident
       /\ IF voiceConfirmData.present
            THEN UNCHANGED <<editedData, isEditing, isSubmitting>>
            ELSE /\ editedData' = incident
                 /\ isEditing' = FALSE
                 /\ isSubmitting' = FALSE
  /\ UNCHANGED <<inFlight, voiceGps>>
  /\ ReportUnchanged
  /\ GateFrame("deliver")

\* The Edit Details / Cancel Edit button.
toggleEditing ==
  /\ voiceConfirmData.present
  /\ isEditing' = ~isEditing
  /\ UNCHANGED <<voiceConfirmData, editedData, isSubmitting, inFlight, voiceGps>>
  /\ ReportUnchanged
  /\ GateFrame("other")

\* onChange of the select, the textarea and the location input.
editField ==
  /\ voiceConfirmData.present
  /\ isEditing
  /\ \/ \E t \in EditedTypes : editedData' = [editedData EXCEPT !.incident_type = t]
     \/ \E d \in EditedDescriptions : editedData' = [editedData EXCEPT !.description = d]
     \/ \E n \in EditedLocationNames : editedData' = [editedData EXCEPT !.location_name = n]
  /\ UNCHANGED <<voiceConfirmData, isEditing, isSubmitting, inFlight, voiceGps>>
  /\ ReportUnchanged
  /\ GateFrame("other")

\* onClose of the Dashboard: setVoiceConfirmData(null), which unmounts the
\* modal.
closeConfirm ==
  /\ voiceConfirmData' = NoConfirmData
  /\ editedData' = NoConfirmData
  /\ isEditing' = FALSE
  /\ isSubmitting' = FALSE

\* The header's close control (never disabled).
closeHeader ==
  /\ voiceConfirmData.present
  /\ closeConfirm
  /\ inFlight' = cancelled(inFlight, "voice")
  /\ UNCHANGED <<voiceGps>>
  /\ ReportUnchanged
  /\ GateFrame("close")

\* The Cancel button, disabled while isSubmitting.
cancelConfirm ==
  /\ voiceConfirmData.present
  /\ ~isSubmitting
  /\ closeConfirm
  /\ inFlight' = cancelled(inFlight, "voice")
  /\ UNCHANGED <<voiceGps>>
  /\ ReportUnchanged
  /\ GateFrame("cancel")

\* The request VoiceConfirmModal.handleSubmit sends.
confirmRequest(data) ==
  InsertRequest("voice", data.incident_type, data.description, data.latitude,
                data.longitude, data.location_name)

\* parsedData.confidence < 0.7, in hundredths
WarningThreshold == 70
\* The warning with <= in place of <.
lowConfidenceWarning_Inclusive(parsedData) == parsedData.confidence <= WarningThreshold

\* The modal renders the low-confidence warning.
lowConfidenceWarning(parsedData) == parsedData.confidence < WarningThreshold

\* disabled={isSubmitting} of the Submit button
submitDisabled(submitting) == submitting

\* VoiceConfirmModal.handleSubmit up to the await of the insert.
handleSubmitConfirm ==
  /\ voiceConfirmData.present
  /\ ~submitDisabled(isSubmitting)
  /\ Cardinality(inFlight) < MaxInFlight
  /\ IF ~user
       THEN UNCHANGED <<isSubmitting, inFlight>>
       ELSE /\ isSubmitting' = TRUE
            /\ inFlight' = inFlight \cup {confirmRequest(editedData)}
  /\ UNCHANGED <<voiceConfirmData, editedData, isEditing, voiceGps>>
  /\ ReportUnchanged
  /\ GateFrame("submit")

\* The finally block left out.
submittingAfterSettle_Stuck(request, submitting) == submitting

\* finally { setIsSubmitting(false) }, which does nothing once the modal
\* is gone.
submittingAfterSettle(request, submitting) ==
  IF request.orphan THEN submitting ELSE FALSE

\* VoiceConfirmModal.handleSubmit after the await: the insert went through
\* (onClose, then finally) or it did not (catch, then finally).  The state
\* setters of a modal that is gone do nothing.
confirmInsertSettled ==
  \E e \in inFlight, delivers \in BOOLEAN :
    /\ e.path = "voice"
    /\ LET stays == orphaned(inFlight \ {e}, "voice")
       IN IF delivers /\ dbAccepts(e)
            THEN /\ inserted' = e
                 /\ closeConfirm
                 /\ inFlight' = stays
                 /\ GateFrame("inserted")
            ELSE /\ UNCHANGED <<voiceConfirmData, editedData, isEditing>>
                 /\ isSubmitting' = submittingAfterSettle(e, isSubmitting)
                 /\ inFlight' = inFlight \ {e}
                 /\ GateFrame("failed")
    /\ UNCHANGED voiceGps
    /\ ReportUnchanged

\* handleMapClick
handleMapClick ==
  /\ \E place \in MapPlaces : selectedReportLocation' = place
  /\ isReportModalOpen' = TRUE
  /\ UNCHANGED <<incidentType, description, reportIsSubmitting, inFlight, voiceGps>>
  /\ ConfirmUnchanged
  /\ GateFrame("other")

\* handleQuickReport: getCurrentPosition succeeds or fails.
handleQuickReport ==
  /\ \/ /\ selectedReportLocation' = SomeGps
        /\ voiceGps' = SomeGps
        /\ isReportModalOpen' = TRUE
     \/ UNCHANGED <<selectedReportLocation, voiceGps, isReportModalOpen>>
  /\ UNCHANGED <<incidentType, description, reportIsSubmitting, inFlight>>
  /\ ConfirmUnchanged
  /\ GateFrame("other")

\* The type buttons and the textarea of ReportModal.
reportEdit ==
  /\ isReportModalOpen
  /\ \/ /\ \E t \in EditedTypes : incidentType' = t
        /\ UNCHANGED description
     \/ /\ \E d \in TypedDescriptions : description' = d
        /\ UNCHANGED incidentType
  /\ UNCHANGED <<isReportModalOpen, selectedReportLocation, reportIsSubmitting,
                 inFlight, voiceGps>>
  /\ ConfirmUnchanged
  /\ GateFrame("other")

\* onClose of ReportModal (its close control and its Cancel button).
closeReport ==
  /\ isReportModalOpen
  /\ isReportModalOpen' = FALSE
  /\ selectedReportLocation' = NoPlace
  /\ UNCHANGED <<incidentType, description, reportIsSubmitting, inFlight, voiceGps>>
  /\ ConfirmUnchanged
  /\ GateFrame("other")

\* ReportModal.handleSubmit up to the await of the insert.  The form is
\* submitted only with a description (required) and the button is disabled
\* while isSubmitting or without a selected location.
handleSubmitReport ==
  /\ isReportModalOpen
  /\ ~reportIsSubmitting
  /\ selectedReportLocation.present
  /\ description # << >>
  /\ Cardinality(inFlight) < MaxInFlight
  /\ IF ~user
       THEN UNCHANGED <<reportIsSubmitting, inFlight>>
       ELSE /\ reportIsSubmitting' = TRUE
            /\ inFlight' = inFlight \cup
                 {InsertRequest("report", incidentType, trim(description),
                                selectedReportLocation.lat, selectedReportLocation.lng,
                                ReverseName)}
  /\ UNCHANGED <<isReportModalOpen, selectedReportLocation, incidentType,
                 description, voiceGps>>
  /\ ConfirmUnchanged
  /\ GateFrame("other")

\* ReportModal.handleSubmit after the await.
reportInsertSettled ==
  \E e \in inFlight, delivers \in BOOLEAN :
    /\ e.path = "report"
    /\ inFlight' = inFlight \ {e}
    /\ reportIsSubmitting' = FALSE
    /\ IF delivers /\ dbAccepts(e)
         THEN /\ inserted' = e
              /\ description' = << >>
              /\ incidentType' = "crime"
              /\ isReportModalOpen' = FALSE
              /\ selectedReportLocation' = NoPlace
              /\ GateFrame("inserted")
         ELSE /\ UNCHANGED <<description, incidentType,
                             isReportModalOpen, selectedReportLocation>>
              /\ GateFrame("failed")
    /\ UNCHANGED voiceGps
    /\ ConfirmUnchanged

NextGate ==
  \/ handleVoiceIncidentParsed
  \/ toggleEditing
  \/ editField
  \/ closeHeader
  \/ cancelConfirm
  \/ handleSubmitConfirm
  \/ confirmInsertSettled
  \/ handleMapClick
  \/ handleQuickReport
  \/ reportEdit
  \/ closeReport
  \/ handleSubmitReport
  \/ reportInsertSettled

SpecGate == InitGate /\ [][NextGate]_vars

(***************************************************************************)
(* Claims about the proximity announcer.                                   *)
(***************************************************************************)

\* C1: within one session every incident id is announced at most once,
\* whatever the sequence of collection updates, GPS changes, pins and unpins.
C1_AtMostOneAnnouncement ==
  \A id \in IncidentIds : announceCount[id] <= 1

\* C2: no step ever removes an id from lastAnnouncedIncidents.
C2_AnnouncedSetOnlyGrows ==
  [][lastAnnouncedIncidents \subseteq lastAnnouncedIncidents']_vars

\* C3: the effect run that follows a pin made while the user's point is
\* already monitored announces nothing: every incident of the collection
\* was there before the pin.
C3_PinAnnouncesNoExistingIncident ==
  [][(lastAction = "pin" /\ UserMonitored /\ lastAction' = "effect")
       => emitted' = {}]_vars

\* C4: no incident that was in the collection when a location's key was
\* registered is ever announced on account of that location.
C4_RegisteredPointSkipsExisting ==
  \A e \in emitted : e.id \notin registered[e.locationType]

\* C5: running the effect again on the state an effect run left (same
\* incidents, same pin, same user point) announces nothing and leaves the
\* announced ids unchanged.
C5_RerunIsIdempotent ==
  [][lastAction' = "effect" =>
       LET again == ProximityEffect(incidents', pinnedLocation', userLocation',
                                    lastAnnouncedIncidents', monitoredLocations')
       IN /\ again.emitted = {}
          /\ again.announced = lastAnnouncedIncidents']_vars

\* C5 witness: an effect run has just announced an incident and, having set
\* state, is about to run again.
C5_Witness ==
  lastAction = "effect" /\ emitted # {} /\ effectPending

\* C6: while the user's point is monitored and unchanged, an incident that
\* arrived within 3 miles of it is announced exactly once (never twice; and
\* once, when the effect has run and no monitored point changed since the
\* arrival), and an incident that arrived more than 3 miles from every
\* monitored point is not announced while those points stay as they are.
C6_NearOnceFarNever ==
  /\ \A id \in enteredNear :
       /\ announceCount[id] <= 1
       /\ (id \in enteredQuiet /\ ~effectPending) => announceCount[id] = 1
  /\ \A id \in enteredFar \cap enteredQuiet : announceCount[id] = 0

(***************************************************************************)
(* Claims about the voice pipeline, stated on the run the onresult handler *)
(* last made.                                                              *)
(***************************************************************************)
ParseFinished == parsedIncident.state # "none"
ResolveFinished == locationData.state = "returned"

\* C7: for every transcript and every behaviour of the AI service, whether
\* or not the API key is configured, parseVoiceToIncident returns (it does
\* not throw) an incident whose incident_type and severity are enumerated
\* values and whose confidence lies in [0, 1].
C7_ParseAlwaysReturnsValid ==
  ParseFinished =>
    /\ parsedIncident.state = "returned"
    /\ parsedIncident.value.incident_type \in ValidTypes
    /\ parsedIncident.value.severity \in ValidSeverities
    /\ parsedIncident.value.confidence >= 0
    /\ parsedIncident.value.confidence <= 100

\* The failures of the AI call: it rejects, its text without the code
\* fences is not JSON, or what it parses to has no incident_type, no
\* description or no location_name.
C8_AiFailure(ai) ==
  \/ ai.failed
  \/ SelectSeq(ai.text, LAMBDA t : t \notin {"fence-json", "fence"}) # << JsonPart >>
  \/ ai.payload.kind # "object"
  \/ ai.payload.incident_type = MissingField
  \/ ai.payload.description = MissingText
  \/ ai.payload.location_name = MissingText

\* C8: when the AI call was made and failed in one of these ways,
\* parseVoiceToIncident returns exactly fallbackParsing(transcript), whose
\* confidence is 0.5 and whose description is the first 100 characters of
\* the transcript.
C8_FailureYieldsFallback ==
  [][(pc = "parse" /\ pc' # "parse" /\ apiKeyConfigured /\ C8_AiFailure(aiSeen')) =>
       /\ parsedIncident' = Returned(fallbackParsing(voiceText))
       /\ parsedIncident'.value.confidence = 50
       /\ parsedIncident'.value.description =
            [i \in 1..(IF Len(voiceText) < 100 THEN Len(voiceText) ELSE 100) |-> voiceText[i]]]_vars

\* A failed AI call on a transcript longer than 100 characters has been
\* answered.
C8_Witness ==
  /\ ParseFinished
  /\ apiKeyConfigured
  /\ C8_AiFailure(aiSeen)
  /\ Len(voiceText) > 100
  /\ Len(parsedIncident.value.description) = 100

\* The location name contains, whatever the case of its letters, one of the
\* four self-referential phrases.
C9_SelfReferential(name) ==
  \E phrase \in { <<"c","u","r","r","e","n","t"," ","l","o","c","a","t","i","o","n">>,
                  <<"h","e","r","e">>,
                  <<"m","y"," ","l","o","c","a","t","i","o","n">>,
                  <<"t","h","i","s"," ","l","o","c","a","t","i","o","n">> } :
    \E i \in 1..Len(name) :
      /\ i + Len(phrase) - 1 <= Len(name)
      /\ \A j \in 1..Len(phrase) : toLowerChar(name[i + j - 1]) = phrase[j]

ReverseFailed == ~revSeen.ok \/ revSeen.display_name = MissingText

\* C9: for a self-referential location name and a supplied caller GPS,
\* resolveLocation returns lat/lng equal to the caller GPS, makes no
\* forward geocoding request, and labels the place "Current Location" when
\* reverse geocoding fails.
C9_SelfReferentialUsesGps ==
  (ResolveFinished /\ voiceGps.present
     /\ C9_SelfReferential(parsedIncident.value.location_name)) =>
    /\ ~locationData.value.isNull
    /\ locationData.value.lat = voiceGps.lat
    /\ locationData.value.lng = voiceGps.lng
    /\ \A i \in 1..Len(geoCalls) : geoCalls[i] # "forward"
    /\ ReverseFailed => locationData.value.location_name = CurrentLocationLabel
    /\ ~ReverseFailed => locationData.value.location_name = revSeen.display_name

\* A name that is self-referential only when case is ignored has been
\* resolved with a GPS position and a failed reverse lookup.
C9_Witness ==
  /\ ResolveFinished
  /\ voiceGps.present
  /\ parsedIncident.value.location_name = <<"M","y"," ","L","o","c","a","t","i","o","n">>
  /\ ReverseFailed
  /\ delivered.called
  /\ delivered.latitude = voiceGps.lat

\* The forward geocoder answered with a candidate whose confidence is at
\* most 0.5; a missing importance counts as 0.5.
C10_LowConfidence ==
  /\ fwdSeen.ok
  /\ Len(fwdSeen.data) > 0
  /\ \/ fwdSeen.data[1].importance = NotANumber
     \/ fwdSeen.data[1].importance <= 50

\* C10: for a location name that is not self-referential, a forward
\* geocoding result of confidence at most 0.5 and an available caller GPS,
\* resolveLocation returns the caller GPS coordinates and not the
\* geocoder's.
C10_LowConfidenceFallsBackToGps ==
  (ResolveFinished /\ voiceGps.present
     /\ ~C9_SelfReferential(parsedIncident.value.location_name)
     /\ C10_LowConfidence) =>
    /\ ~locationData.value.isNull
    /\ locationData.value.lat = voiceGps.lat
    /\ locationData.value.lng = voiceGps.lng
    /\ ~(/\ locationData.value.lat = fwdSeen.data[1].lat
         /\ locationData.value.lng = fwdSeen.data[1].lon)

\* A candidate of confidence exactly 0.5 has been turned down in favour of
\* the caller GPS.
C10_Witness ==
  /\ ResolveFinished
  /\ voiceGps.present
  /\ ~C9_SelfReferential(parsedIncident.value.location_name)
  /\ C10_LowConfidence
  /\ fwdSeen.data[1].importance = 50
  /\ fwdSeen.data[1].lat # NotANumber
  /\ delivered.called
  /\ delivered.latitude = voiceGps.lat

\* The forward geocoder answered with a candidate whose confidence is above
\* 0.5.
C11_HighConfidence ==
  /\ fwdSeen.ok
  /\ Len(fwdSeen.data) > 0
  /\ fwdSeen.data[1].importance # NotANumber
  /\ fwdSeen.data[1].importance > 50

\* C11: for a location name that is not self-referential and a forward
\* geocoding result of confidence above 0.5, resolveLocation returns exactly
\* that result's lat, lng and display_name, with or without a caller GPS.
C11_HighConfidenceWins ==
  (ResolveFinished
     /\ ~C9_SelfReferential(parsedIncident.value.location_name)
     /\ C11_HighConfidence) =>
    /\ ~locationData.value.isNull
    /\ locationData.value.lat = fwdSeen.data[1].lat
    /\ locationData.value.lng = fwdSeen.data[1].lon
    /\ locationData.value.location_name = fwdSeen.data[1].display_name
    /\ geoCalls = << "forward" >>

\* A candidate of confidence 0.85 has been returned although a caller GPS
\* was at hand.
C11_Witness ==
  /\ ResolveFinished
  /\ voiceGps.present
  /\ ~C9_SelfReferential(parsedIncident.value.location_name)
  /\ C11_HighConfidence
  /\ fwdSeen.data[1].importance = 85
  /\ fwdSeen.data[1].lat # NotANumber
  /\ delivered.called
  /\ delivered.latitude = fwdSeen.data[1].lat
  /\ delivered.latitude # voiceGps.lat

\* resolveLocation returns null exactly when there is no caller GPS and
\* either the name is self-referential or forward geocoding gave no
\* candidate of confidence above 0.5.
C12_NullExactlyWhenNoSource ==
  ResolveFinished =>
    (locationData.value.isNull <=>
       (/\ ~voiceGps.present
        /\ \/ C9_SelfReferential(parsedIncident.value.location_name)
           \/ ~C11_HighConfidence))

\* C12: resolveLocation returns null exactly when there is no caller GPS
\* and either the name is self-referential or forward geocoding gave no
\* candidate of confidence above 0.5; otherwise it returns (never throws)
\* a record whose lat and lng are both concrete numbers.
C12_NullOrConcreteCoordinates ==
  /\ C12_NullExactlyWhenNoSource
  /\ (ResolveFinished /\ ~locationData.value.isNull) =>
       /\ locationData.value.lat # NotANumber
       /\ locationData.value.lng # NotANumber

\* C13: when resolveLocation returns null for a captured transcript,
\* onIncidentParsed is not called for that transcript, the handler sets the
\* error message, and isProcessing is false again.
C13_NullLocationHaltsPipeline ==
  [][(ResolveFinished' /\ locationData'.value.isNull) =>
       /\ ~delivered'.called
       /\ ~isProcessing'
       /\ pc' = "idle"
       /\ pc = "resolve" => voiceError' = NoLocationMessage]_vars

\* A run whose location could not be resolved has ended.
C13_Witness ==
  /\ ResolveFinished
  /\ locationData.value.isNull
  /\ voiceError = NoLocationMessage
  /\ ~isProcessing
  /\ ~delivered.called

(***************************************************************************)
(* Claims about the Dashboard's report paths.                              *)
(***************************************************************************)
\* C14: every incident that either submit path inserts carries a latitude
\* and a longitude that are both numbers, whatever geolocation and
\* geocoding gave (a candidate whose lat/lon texts are not numeric
\* included).
C14_InsertedHasCoordinates ==
  inserted.present =>
    /\ inserted.latitude \notin {NotANumber, JsonNull}
    /\ inserted.longitude \notin {NotANumber, JsonNull}

\* The tuple with the coordinates that are not numbers was submitted and
\* its insert has failed, the modal still open.
C14_Witness ==
  /\ gateAction = "failed"
  /\ voiceConfirmData.present
  /\ editedData.latitude = NotANumber
  /\ inFlight = {}
  /\ ~isSubmitting

C18_CloseDiscardsTuple ==
  [][/\ gateAction' \in {"close", "cancel"} => ~voiceConfirmData'.present
     /\ (inserted'.present /\ inserted'.path = "voice") => ~inserted'.cancelled]_vars

\* The voice request that the step settles without an insert, if any.
C19_FailedRequests ==
  { e \in inFlight : e.path = "voice" /\ ~e.orphan /\ e \notin inFlight' }

\* C19: when the insert of VoiceConfirmModal.handleSubmit fails, or no user
\* is authenticated, nothing is inserted, the modal stays open with
\* editedData unchanged and isSubmitting false, so that Submit can be
\* pressed again and sends the same edited data.
C19_FailedInsertKeepsEdit ==
  [][/\ (gateAction' = "failed" /\ C19_FailedRequests # {}) =>
          /\ ~inserted'.present
          /\ voiceConfirmData.present
          /\ voiceConfirmData' = voiceConfirmData
          /\ editedData' = editedData
          /\ ~isSubmitting'
     /\ (gateAction' = "submit" /\ ~user) =>
          /\ ~inserted'.present
          /\ inFlight' = inFlight
          /\ voiceConfirmData' = voiceConfirmData
          /\ editedData' = editedData
          /\ ~isSubmitting'
     /\ (gateAction' = "submit" /\ user) =>
          inFlight' = inFlight \cup {confirmRequest(editedData)}]_vars

\* An insert of an edited tuple has failed and the modal is open for the
\* next Submit.
C19_Witness ==
  /\ gateAction = "failed"
  /\ user
  /\ voiceConfirmData.present
  /\ editedData # voiceConfirmData
  /\ dbAccepts(confirmRequest(editedData))
  /\ ~isSubmitting
  /\ inFlight = {}

\* C20: the confirmation modal never inserts an incident whose description
\* is empty or whose incident_type is not one of the six, whatever the user
\* edited before Submit.
C20_InsertedIsValidated ==
  (inserted.present /\ inserted.path = "voice") =>
    /\ inserted.description # << >>
    /\ inserted.incident_type \in ValidTypes

(***************************************************************************)
(* Claims about the order of the pipeline and the button's two flags.      *)
(***************************************************************************)
C15_PipelineSteps ==
  <<"Voice Captured", "Gemini AI Parsing", "Gemini AI Response", "Geocoding",
    "Geocoding Success", "Opening Confirmation Modal">>

C16_ListeningExcludesProcessing ==
  [][/\ ~(isListening' /\ isProcessing')
     /\ isProcessing => recognitionState' \notin {"starting", "listening"}
                          \/ recognitionState' = recognitionState]_vars

\* The recognition object is inactive again while the handler of its result
\* is still running, so that start() would succeed.
C16_Witness ==
  /\ isProcessing
  /\ ~isListening
  /\ recognitionState = "inactive"
  /\ pc = "resolve"

(***************************************************************************)
(* Claims about the announce loop and the order of the monitored points.   *)
(***************************************************************************)
\* C21: when textToSpeech throws or rejects for an announcement, the
\* incident's id is still in lastAnnouncedIncidents, its alert is still in
\* the chat log, and the other announcements of the run are processed too.
C21_SpeechFailureDoesNotBlock ==
  lastAction = "effect" =>
    /\ speechFailed \subseteq { e.id : e \in emitted }
    /\ speechFailed # {} =>
         /\ \A e \in emitted : e.id \in lastAnnouncedIncidents
         /\ \A e \in emitted : e.id \in messages

\* Two announcements in one run, the speech of one of them failed.
C21_Witness ==
  /\ lastAction = "effect"
  /\ Cardinality(emitted) = 2
  /\ Cardinality(speechFailed) = 1

C23_AiSuccess ==
  /\ apiKeyConfigured
  /\ parsedIncident.state = "returned"
  /\ ~C8_AiFailure(aiSeen)
  /\ aiSeen.payload.incident_type # ""
  /\ aiSeen.payload.description # << >>
  /\ aiSeen.payload.location_name # << >>

\* C23: on the AI-success path the returned confidence is the AI's numeric
\* confidence c clamped to [0, 1] (c itself when 0 <= c <= 1, c = 0
\* included), and 0.5 when c is not a number.
C23_ConfidenceClamped ==
  C23_AiSuccess =>
    LET c == aiSeen.payload.confidence
    IN parsedIncident.value.confidence =
         IF c = NotANumber THEN 50
         ELSE IF c < 0 THEN 0
         ELSE IF c > 100 THEN 100
         ELSE c

\* C24: geocodeLocation returns a confidence in [0, 1] for every importance
\* of the provider's first candidate: the importance clamped to [0, 1], or
\* 0.5 when there is none.
C24_GeocodeConfidenceClamped ==
  (fwdSeen.ok /\ Len(fwdSeen.data) > 0) =>
    LET importance == fwdSeen.data[1].importance
        confidence == geocodeLocation(fwdSeen).confidence
    IN /\ confidence >= 0
       /\ confidence <= 100
       /\ confidence =
            IF importance = NotANumber THEN 50
            ELSE IF importance < 0 THEN 0
            ELSE IF importance > 100 THEN 100
            ELSE importance

\* The categories in the order of the claim, each with its terms.
C25_Categories ==
  << [type |-> "fire", severity |-> "critical",
      terms |-> { <<"f","i","r","e">>, <<"b","u","r","n","i","n","g">>, <<"s","m","o","k","e">> }],
     [type |-> "accident", severity |-> "high",
      terms |-> { <<"a","c","c","i","d","e","n","t">>, <<"c","r","a","s","h">>, <<"c","o","l","l","i","s","i","o","n">> }],
     [type |-> "medical", severity |-> "high",
      terms |-> { <<"m","e","d","i","c","a","l">>, <<"i","n","j","u","r","e","d">>, <<"h","u","r","t">> }],
     [type |-> "crime", severity |-> "high",
      terms |-> { <<"c","r","i","m","e">>, <<"r","o","b","b","e","r","y">>, <<"t","h","e","f","t">> }],
     [type |-> "hazard", severity |-> "medium",
      terms |-> { <<"t","r","e","e">>, <<"d","e","b","r","i","s">>, <<"b","l","o","c","k","i","n","g">>,
                  <<"p","o","t","h","o","l","e">>, <<"o","b","s","t","r","u","c","t","i","o","n">> }] >>

\* The positions at which the lower-cased text has the term.
C25_Occurrences(text, term) ==
  { i \in 1..Len(text) :
      /\ i + Len(term) - 1 <= Len(text)
      /\ \A j \in 1..Len(term) : toLowerChar(text[i + j - 1]) = term[j] }

\* The first category that has a term contained in the lower-cased text.
C25_FirstCategory(text) ==
  LET hits == { k \in 1..Len(C25_Categories) :
                  \E term \in C25_Categories[k].terms : C25_Occurrences(text, term) # {} }
  IN IF hits = {} THEN <<"other", "medium">>
     ELSE LET k == CHOOSE x \in hits : \A y \in hits : x <= y
          IN <<C25_Categories[k].type, C25_Categories[k].severity>>

C25_TreeTranscript ==
  <<"A", " ", "t", "r", "e", "e", " ", "i", "s", " ", "b", "l", "o", "c", "k", "i", "n", "g", " ", "t", "h", "e", " ", "r", "o", "a", "d", " ", "o", "n", " ", "C", "o", "o", "p", "e", "r", " ", "S", "t", "r", "e", "e", "t">>

\* C25: fallbackParsing takes incident_type and severity from the first
\* category, in the order fire/critical, accident/high, medical/high,
\* crime/high, hazard/medium, that has a term contained in the lower-cased
\* transcript; "A tree is blocking the road on Cooper Street" gives hazard,
\* medium and confidence 0.5.
C25_FirstCategoryDecides ==
  [][(pc = "parse" /\ pc' # "parse" /\ apiKeyConfigured /\ aiSeen'.failed) =>
       /\ <<parsedIncident'.value.incident_type, parsedIncident'.value.severity>>
            = C25_FirstCategory(voiceText)
       /\ voiceText = C25_TreeTranscript =>
            /\ parsedIncident'.value.incident_type = "hazard"
            /\ parsedIncident'.value.severity = "medium"
            /\ parsedIncident'.value.confidence = 50]_vars

\* The tree transcript has been parsed by the keyword extractor.
C25_Witness ==
  /\ apiKeyConfigured
  /\ parsedIncident.state = "returned"
  /\ aiSeen.failed
  /\ voiceText = C25_TreeTranscript
  /\ parsedIncident.value.incident_type = "hazard"
  /\ parsedIncident.value.severity = "medium"
  /\ parsedIncident.value.confidence = 50

\* None of the words of the text (its maximal runs of letters) is one of
\* the curated terms.
C29_NoWordIsATerm(text) ==
  \A k \in 1..Len(C25_Categories) : \A term \in C25_Categories[k].terms :
    \A i \in C25_Occurrences(text, term) :
      \/ (i > 1 /\ text[i - 1] \in Letters)
      \/ (i + Len(term) <= Len(text) /\ text[i + Len(term)] \in Letters)

\* C29: fallbackParsing returns incident_type other with severity medium for
\* every transcript none of whose words is one of the curated terms.
C29_NoTermMeansOther ==
  [][(/\ pc = "parse" /\ pc' # "parse" /\ apiKeyConfigured /\ aiSeen'.failed
      /\ C29_NoWordIsATerm(voiceText)) =>
       /\ parsedIncident'.value.incident_type = "other"
       /\ parsedIncident'.value.severity = "medium"]_vars

\* C26: within one effect run, an incident that is new and within 3 miles
\* of both the pinned point and the user's point, both already monitored,
\* is announced exactly once, for the pinned location, with the distance
\* from the pin.
C26_OverlapAnnouncedForPin ==
  [][(/\ lastAction' = "effect"
      /\ incidents # Undefined
      /\ pinnedLocation # Null
      /\ userLocation # Null
      /\ pinnedKey(pinnedLocation) \in monitoredLocations
      /\ userKey(userLocation) \in monitoredLocations) =>
       \A id \in DOMAIN incidents :
         (/\ id \notin lastAnnouncedIncidents
          /\ calculateDistance(pinnedLocation, 0, incidents[id], 0) <= 3000
          /\ calculateDistance(userLocation, 0, incidents[id], 0) <= 3000) =>
           { e \in emitted' : e.id = id } =
             { [id |-> id, locationType |-> "pinned",
                distance |-> calculateDistance(pinnedLocation, 0, incidents[id], 0)] }]_vars

\* An incident near both monitored points has just been announced for the
\* pin, its distance from the user's point being another one.
C26_Witness ==
  /\ lastAction = "effect"
  /\ pinnedLocation # Null
  /\ userLocation # Null
  /\ pinnedKey(pinnedLocation) \in monitoredLocations
  /\ userKey(userLocation) \in monitoredLocations
  /\ \E e \in emitted :
       /\ e.locationType = "pinned"
       /\ calculateDistance(userLocation, 0, incidents[e.id], 0) <= 3000
       /\ calculateDistance(userLocation, 0, incidents[e.id], 0) # e.distance

\* C27: once the incident collection, the user's GPS and the pin are held
\* fixed (only the effect runs from some point on), the effect stops
\* re-triggering itself, in every configuration, the one with a loaded
\* collection and no monitored point included.
C27_EffectSettles ==
  <>[](lastAction = "effect") => <>[](~effectPending)

\* C28: while the user's GPS stays available, every incident that enters
\* the collection within 3 miles of the user's position is eventually
\* announced, whatever else the effect run that processes its arrival has
\* to process (a new user-location key, a new pin, the registration that
\* follows an unpin).
C28_ArrivalEventuallyAnnounced ==
  \A id \in IncidentIds :
    (id \in arrivedNear) ~> (announceCount[id] > 0 \/ id \notin arrivedNear)

\* C30: once a recognition result has set isProcessing, the flag becomes
\* false again on every path of the handler (report delivered, location not
\* resolved, error thrown by the extractor or the resolver), provided the
\* awaited calls settle; and no step other than a click on the enabled,
\* idle button starts a capture.
C30_CaptureStarts ==
  recognitionState # "starting" /\ recognitionState' = "starting"
C30_ProcessingEnds ==
  /\ isProcessing ~> ~isProcessing
  /\ [][C30_CaptureStarts =>
          /\ ~isProcessing /\ ~isListening /\ pc = "idle"
          /\ UNCHANGED <<isListening, isProcessing, transcript, voiceError,
                         pc, delivered, steps, calls>>]_vars
C30_Witness ==
  /\ pc = "idle"
  /\ ~isProcessing
  /\ recognitionState = "inactive"
  /\ Len(steps) > 0
  /\ steps[Len(steps)] = "Error"
  /\ voiceError = NoLocationMessage

====
